---- MODULE Spec2Model ----
(***************************************************************************)
(* Model of models/detr.py: the SetCriterion loss engine (per-task loss    *)
(* functions, get_loss dispatch, forward orchestration with auxiliary      *)
(* layers and the distributed normalisation of num_boxes).                 *)
(*                                                                         *)
(* Tensors are modelled by what the loss code reads of them: their keys,   *)
(* their shapes, the index pairs gathered from them, the integer class     *)
(* ids, and depths as integers in the unit of depth_bin_res.               *)
(* Queries and targets are numbered from 1 (Python numbers them from 0);   *)
(* class ids, bin ids and decoder-layer suffixes keep Python's numbering.  *)
(***************************************************************************)
EXTENDS Integers, Sequences, FiniteSets, TLC

(***************************************************************************)
(* Bounds of the model                                                     *)
(***************************************************************************)
\* number of object queries per image (args.num_queries)
NumQueries == 3
\* largest number of targets of one image (N_i <= num_queries)
MaxTargets == 2
\* largest number of auxiliary decoder-layer bundles in outputs['aux_outputs']
MaxAux == 2
\* largest raw target depth drawn, in the unit of depth_bin_res
MaxDepth == 95

\* largest box coordinate drawn, in the unit of the box coordinates
MaxCoord == 2
\* largest image height and width drawn, in pixels
MaxSize == 2

\* number of object classes; class ids are 0 .. num_classes-1 and
\* num_classes is the no-object index (self.num_classes)
num_classes == 2

(***************************************************************************)
(* Program constants                                                       *)
(***************************************************************************)
\* args.num_depth_bins, documented "# 9"
n_depth_bins == 9
\* args.depth_bin_res, documented "# 10"
depth_bin_res == 10
Queries == 1..NumQueries

\* the keys DETR.forward puts in every bundle
PredKeys ==
  {"pred_logits", "pred_boxes", "pred_bev", "pred_dim", "pred_angle",
   "pred_depth_bin", "pred_depth_delta", "pred_head_bev", "pred_feet_bev"}

\* the target keys the nine losses of build read
TargetKeys ==
  {"labels", "boxes", "bev", "dim", "heading_bin", "heading_res", "depth"}

\* the loss registry of get_loss
LossNames ==
  {"labels", "cardinality", "boxes", "masks", "bev", "dim", "angle",
   "depth", "head", "feet"}

(***************************************************************************)
(* Sequences and tensor shapes                                             *)
(***************************************************************************)
Min(a, b) == IF a <= b THEN a ELSE b

Abs(a) == IF a >= 0 THEN a ELSE 0 - a

RECURSIVE Cat(_)
\* torch.cat of a list of 1-d index/value tensors
Cat(ss) == IF ss = <<>> THEN <<>> ELSE Head(ss) \o Cat(Tail(ss))

RECURSIVE Sum(_)
Sum(s) == IF s = <<>> THEN 0 ELSE Head(s) + Sum(Tail(s))

SeqToSet(s) == {s[k] : k \in 1..Len(s)}

\* Tensor.squeeze(): every dimension of size 1 is removed
Squeeze(shape) == SelectSeq(shape, LAMBDA d : d # 1)

\* torch broadcasting of two shapes, aligned at the trailing dimension
Broadcastable(s1, s2) ==
  \A k \in 1..Min(Len(s1), Len(s2)) :
     LET a == s1[Len(s1) + 1 - k]
         b == s2[Len(s2) + 1 - k]
     IN  a = b \/ a = 1 \/ b = 1

\* Tensor.int(): conversion of a float to an integer truncates toward zero
TruncDiv(d, r) == IF d >= 0 THEN d \div r ELSE 0 - ((0 - d) \div r)

\* Tensor.argmax(-1): the index (from 0) of the first largest entry
ArgMax(v) ==
  (CHOOSE i \in 1..Len(v) :
      /\ \A j \in 1..Len(v) : v[j] <= v[i]
      /\ \A j \in 1..(i - 1) : v[j] < v[i]) - 1

(***************************************************************************)
(* Values returned by the loss functions                                   *)
(*                                                                         *)
(* A loss function returns [ok, err, out]: ok = FALSE when it raises (err  *)
(* names the exception), otherwise out maps each emitted term name to a    *)
(* Term that records what the scalar was computed from:                    *)
(*   src   the gathered predictions, pairs <<image, query>>                *)
(*   tgt   the gathered targets, pairs <<image, target>>, same order       *)
(*   den   the denominator the sum is divided by (<<0, 1>>: a mean or none)*)
(*   cls   labels: target_classes, per image and query                     *)
(*   bins, res, hot   depth: bin ids, residuals, position of the 1 per row *)
(*   card  cardinality: <<sum of |P_i - N_i|, number of images>>           *)
(***************************************************************************)
NoDen == <<0, 1>>

EmptyTerm ==
  [src |-> <<>>, tgt |-> <<>>, den |-> NoDen, cls |-> <<>>,
   bins |-> <<>>, res |-> <<>>, hot |-> <<>>, card |-> <<0, 0>>]

Raise(e) == [ok |-> FALSE, err |-> e, out |-> <<>>]

Return(o) == [ok |-> TRUE, err |-> "", out |-> o]

(***************************************************************************)
(* Index gathering                                                         *)
(***************************************************************************)
get_src_permutation_idx_tgt(indices) ==
  Cat([i \in 1..Len(indices) |->
         [k \in 1..Len(indices[i].tgt) |-> <<i, indices[i].tgt[k]>>]])

\* (batch_idx, src_idx): for image i, in order, every src of indices[i]
get_src_permutation_idx(indices) ==
  Cat([i \in 1..Len(indices) |->
         [k \in 1..Len(indices[i].src) |-> <<i, indices[i].src[k]>>]])

\* (batch_idx, tgt_idx): for image i, in order, every tgt of indices[i]
get_tgt_permutation_idx(indices) ==
  Cat([i \in 1..Len(indices) |->
         [k \in 1..Len(indices[i].tgt) |-> <<i, indices[i].tgt[k]>>]])

\* torch.cat([t[key][J] for t, (_, J) in zip(targets, indices)]) as the
\* pairs <<image, target>> it reads; zip stops at the shorter list
TargetRefs(targets, indices) ==
  Cat([i \in 1..Min(Len(targets), Len(indices)) |->
         [k \in 1..Len(indices[i].tgt) |-> <<i, indices[i].tgt[k]>>]])

\* outputs[key][idx] is defined: every index pair addresses a query
SrcInRange(outputs, idx) ==
  \A k \in 1..Len(idx) :
     /\ idx[k][1] \in 1..Len(outputs.logits)
     /\ idx[k][2] \in Queries

\* t[key][J] is defined for every gathered target
TgtInRange(targets, refs) ==
  \A k \in 1..Len(refs) : refs[k][2] \in 1..Len(targets[refs[k][1]].labels)

TargetKeyMissingMatched(targets, indices, key) ==
  \E i \in 1..Min(Len(targets), Len(indices)) :
     indices[i].tgt # <<>> /\ key \notin targets[i].keys

\* some target dict of the zip lacks key
TargetKeyMissing(targets, indices, key) ==
  \E i \in 1..Min(Len(targets), Len(indices)) : key \notin targets[i].keys

(***************************************************************************)
(* Data                                                                    *)
(*                                                                         *)
(* A bundle (one decoder layer's outputs) is [keys, logits, best]: the     *)
(* keys present, logits[i][q] the class logits of query q of image i, and  *)
(* best[i] the order in which the Matcher prefers the queries of image i.  *)
(* outputs is a bundle with one more field, aux, the list under            *)
(* 'aux_outputs' (present when "aux_outputs" is in keys).                  *)
(* A target dict is [keys, labels, depth]; Len(labels) is the image's      *)
(* object count N_i, shared by all its per-object tensors.                 *)
(* indices is, per image, [src, tgt]: two index sequences of equal length. *)
(* num_boxes is a rational <<numerator, denominator>>.                     *)
(***************************************************************************)
NumTargets(t) == Len(t.labels)

\* the element of a 1-d tensor at i, under broadcasting of a length-1 tensor
At(s, i) == s[IF Len(s) = 1 THEN 1 ELSE i]

(***************************************************************************)
(* Per-task loss functions                                                 *)
(***************************************************************************)
loss_labels(outputs, targets, indices, num_boxes, log) ==
  LET idx == get_src_permutation_idx(indices)
      refs == TargetRefs(targets, indices)
  IN
  IF "pred_logits" \notin outputs.keys THEN Raise("AssertionError")
  ELSE IF TargetKeyMissing(targets, indices, "labels") THEN Raise("KeyError")
  ELSE IF ~TgtInRange(targets, refs) THEN Raise("IndexError")
  ELSE
    LET target_classes_o ==
          [k \in 1..Len(refs) |-> targets[refs[k][1]].labels[refs[k][2]]]
        \* torch.full(src_logits.shape[:2], num_classes), then
        \* target_classes[idx] = target_classes_o (the last write wins)
        target_classes ==
          [i \in 1..Len(outputs.logits) |->
             [q \in Queries |->
                LET ks == {k \in 1..Len(idx) : idx[k] = <<i, q>>}
                IN  IF ks = {} THEN num_classes
                    ELSE At(target_classes_o,
                            CHOOSE k \in ks : \A j \in ks : j <= k)]]
        loss_ce == [EmptyTerm EXCEPT !.cls = target_classes]
        class_error == [EmptyTerm EXCEPT !.src = idx, !.tgt = refs]
    IN
    IF ~SrcInRange(outputs, idx) THEN Raise("IndexError")
    ELSE IF Len(target_classes_o) \notin {1, Len(idx)} THEN Raise("RuntimeError")
    ELSE IF log THEN Return("loss_ce" :> loss_ce @@ "class_error" :> class_error)
    ELSE Return("loss_ce" :> loss_ce)

loss_depth_multi_bin(outputs, targets, indices, num_boxes) ==
  LET idx == get_src_permutation_idx(indices)
      refs == TargetRefs(targets, indices)
      \* shapes of outputs['pred_depth_bin'][idx].squeeze() and
      \* outputs['pred_depth_delta'][idx].squeeze()
      src_depth_bin == Squeeze(<<Len(idx), n_depth_bins>>)
      src_depth_delta == Squeeze(<<Len(idx), 1>>)
  IN
  IF "pred_depth_bin" \notin outputs.keys THEN Raise("AssertionError")
  ELSE IF "pred_depth_delta" \notin outputs.keys THEN Raise("AssertionError")
  ELSE IF ~SrcInRange(outputs, idx) THEN Raise("IndexError")
  ELSE IF TargetKeyMissing(targets, indices, "depth") THEN Raise("KeyError")
  ELSE IF ~TgtInRange(targets, refs) THEN Raise("IndexError")
  ELSE
    LET target_depth ==
          [k \in 1..Len(refs) |-> targets[refs[k][1]].depth[refs[k][2]]]
        target_depth_bin_cls ==
          [k \in 1..Len(refs) |-> TruncDiv(target_depth[k], depth_bin_res)]
        \* depth_bin_res/2 is exact: depth_bin_res is even
        target_depth_delta ==
          [k \in 1..Len(refs) |->
             target_depth[k] - target_depth_bin_cls[k] * depth_bin_res
                             - (depth_bin_res \div 2)]
        \* target_depth_bin = zeros_like(src_depth_bin);
        \* target_depth_bin[arange(size()[0]), cls.long()] = 1
        width == src_depth_bin[2]
        hot == [k \in 1..Len(refs) |->
                  IF target_depth_bin_cls[k] < 0
                  THEN target_depth_bin_cls[k] + width
                  ELSE target_depth_bin_cls[k]]
    IN
    \* two index tensors on a tensor of fewer than two dimensions
    IF Len(src_depth_bin) < 2 THEN Raise("IndexError")
    ELSE IF ~Broadcastable(<<src_depth_bin[1]>>, <<Len(refs)>>) THEN Raise("IndexError")
    ELSE IF \E k \in 1..Len(refs) : hot[k] \notin 0..(width - 1) THEN Raise("IndexError")
    ELSE IF ~Broadcastable(src_depth_delta, <<Len(refs)>>) THEN Raise("RuntimeError")
    ELSE Return("loss_depth" :>
                  [EmptyTerm EXCEPT !.src = idx, !.tgt = refs,
                                    !.bins = target_depth_bin_cls,
                                    !.res = target_depth_delta,
                                    !.hot = hot])

loss_cardinality_matched(outputs, targets, indices, num_boxes) ==
  IF "pred_logits" \notin outputs.keys THEN Raise("KeyError")
  ELSE IF \E i \in 1..Len(targets) : "labels" \notin targets[i].keys
  THEN Raise("KeyError")
  ELSE Return("cardinality_error" :>
                [EmptyTerm EXCEPT !.card =
                   <<Sum([i \in 1..Len(targets) |->
                            Abs(Len(indices[i].src) - Len(targets[i].labels))]),
                     Len(targets)>>])

loss_cardinality(outputs, targets, indices, num_boxes) ==
  IF "pred_logits" \notin outputs.keys THEN Raise("KeyError")
  ELSE IF \E i \in 1..Len(targets) : "labels" \notin targets[i].keys
  THEN Raise("KeyError")
  ELSE
    LET pred_logits == outputs.logits
        tgt_lengths == [i \in 1..Len(targets) |-> Len(targets[i].labels)]
        \* (pred_logits.argmax(-1) != pred_logits.shape[-1] - 1).sum(1)
        card_pred ==
          [i \in 1..Len(pred_logits) |->
             Cardinality({q \in 1..Len(pred_logits[i]) :
                ArgMax(pred_logits[i][q]) # Len(pred_logits[i][q]) - 1})]
        n == IF Len(card_pred) = 1 THEN Len(tgt_lengths) ELSE Len(card_pred)
        \* F.l1_loss with the default reduction: the mean of |a - b|
        card_err ==
          <<Sum([i \in 1..n |-> Abs(At(card_pred, i) - At(tgt_lengths, i))]), n>>
    IN
    IF ~Broadcastable(<<Len(card_pred)>>, <<Len(tgt_lengths)>>)
    THEN Raise("RuntimeError")
    ELSE Return("cardinality_error" :> [EmptyTerm EXCEPT !.card = card_err])

\* idx = _get_src_permutation_idx(indices); outputs[pred][idx];
\* torch.cat([t[key][i] ...]); an elementwise loss of the two, summed and
\* divided by num_boxes: the part loss_boxes, loss_bev, loss_head, loss_feet
\* and loss_dims share. src_shape is the shape of the gathered predictions.
MatchedLoss(outputs, targets, indices, num_boxes, key, width, squeezed, names) ==
  LET idx == get_src_permutation_idx(indices)
      refs == TargetRefs(targets, indices)
      src_shape == IF squeezed THEN Squeeze(<<Len(idx), width>>)
                   ELSE <<Len(idx), width>>
      term == [EmptyTerm EXCEPT !.src = idx, !.tgt = refs, !.den = num_boxes]
  IN
  IF ~SrcInRange(outputs, idx) THEN Raise("IndexError")
  ELSE IF TargetKeyMissing(targets, indices, key) THEN Raise("KeyError")
  ELSE IF ~TgtInRange(targets, refs) THEN Raise("IndexError")
  ELSE IF ~Broadcastable(src_shape, <<Len(refs), width>>) THEN Raise("RuntimeError")
  ELSE Return([k \in names |-> term])

loss_boxes(outputs, targets, indices, num_boxes) ==
  IF "pred_boxes" \notin outputs.keys THEN Raise("AssertionError")
  ELSE MatchedLoss(outputs, targets, indices, num_boxes, "boxes", 4, FALSE,
                   {"loss_bbox", "loss_giou"})

loss_masks_optional(outputs, targets, indices, num_boxes) ==
  IF \/ "pred_masks" \notin outputs.keys
     \/ \E i \in 1..Len(targets) : "masks" \notin targets[i].keys
  THEN Return(<<>>)
  ELSE Return("loss_mask" :> EmptyTerm @@ "loss_dice" :> EmptyTerm)

loss_masks(outputs, targets, indices, num_boxes) ==
  LET src_idx == get_src_permutation_idx(indices)
      tgt_idx == get_tgt_permutation_idx(indices)
      term == [EmptyTerm EXCEPT !.src = src_idx, !.tgt = tgt_idx, !.den = num_boxes]
  IN
  IF "pred_masks" \notin outputs.keys THEN Raise("AssertionError")
  ELSE IF ~SrcInRange(outputs, src_idx) THEN Raise("IndexError")
  ELSE IF \E i \in 1..Len(targets) : "masks" \notin targets[i].keys
  THEN Raise("KeyError")
  ELSE IF \E k \in 1..Len(tgt_idx) :
            \/ tgt_idx[k][1] \notin 1..Len(targets)
            \/ tgt_idx[k][2] \notin 1..NumTargets(targets[tgt_idx[k][1]])
  THEN Raise("IndexError")
  ELSE Return("loss_mask" :> term @@ "loss_dice" :> term)

loss_bev(outputs, targets, indices, num_boxes) ==
  IF "pred_bev" \notin outputs.keys THEN Raise("AssertionError")
  ELSE MatchedLoss(outputs, targets, indices, num_boxes, "bev", 2, TRUE,
                   {"loss_bev"})

loss_head(outputs, targets, indices, num_boxes) ==
  IF "pred_head_bev" \notin outputs.keys THEN Raise("AssertionError")
  ELSE MatchedLoss(outputs, targets, indices, num_boxes, "bev", 2, TRUE,
                   {"loss_head_bev"})

loss_feet(outputs, targets, indices, num_boxes) ==
  IF "pred_feet_bev" \notin outputs.keys THEN Raise("AssertionError")
  ELSE MatchedLoss(outputs, targets, indices, num_boxes, "bev", 2, TRUE,
                   {"loss_feet_bev"})

loss_dims(outputs, targets, indices, num_boxes) ==
  IF "pred_dim" \notin outputs.keys THEN Raise("AssertionError")
  ELSE MatchedLoss(outputs, targets, indices, num_boxes, "dim", 2, FALSE,
                   {"loss_dim"})

loss_angles(outputs, targets, indices, num_boxes) ==
  LET idx == get_src_permutation_idx(indices)
      refs == TargetRefs(targets, indices)
      term == [EmptyTerm EXCEPT !.src = idx, !.tgt = refs, !.den = num_boxes]
  IN
  IF "pred_angle" \notin outputs.keys THEN Raise("KeyError")
  ELSE IF ~SrcInRange(outputs, idx) THEN Raise("IndexError")
  ELSE IF TargetKeyMissing(targets, indices, "heading_bin") THEN Raise("KeyError")
  ELSE IF ~TgtInRange(targets, refs) THEN Raise("IndexError")
  ELSE IF TargetKeyMissing(targets, indices, "heading_res") THEN Raise("KeyError")
  \* cls_loss [M] + reg_loss [M'] after view(-1)
  ELSE IF ~Broadcastable(<<Len(idx)>>, <<Len(refs)>>) THEN Raise("RuntimeError")
  ELSE Return("loss_angle" :> term)

get_loss_lenient(loss, outputs, targets, indices, num_boxes, log) ==
  IF loss = "labels"
  THEN loss_labels(outputs, targets, indices, num_boxes, log)
  ELSE IF loss = "cardinality"
  THEN loss_cardinality(outputs, targets, indices, num_boxes)
  ELSE Return(<<>>)

(***************************************************************************)
(* get_loss: dispatch through loss_map.  log is the keyword argument       *)
(* forward passes for 'labels' on auxiliary layers (TRUE: not passed).     *)
(***************************************************************************)
get_loss(loss, outputs, targets, indices, num_boxes, log) ==
  IF loss \notin LossNames THEN Raise("AssertionError")
  ELSE CASE loss = "labels" -> loss_labels(outputs, targets, indices, num_boxes, log)
         [] loss = "cardinality" -> loss_cardinality(outputs, targets, indices, num_boxes)
         [] loss = "boxes" -> loss_boxes(outputs, targets, indices, num_boxes)
         [] loss = "masks" -> loss_masks(outputs, targets, indices, num_boxes)
         [] loss = "bev" -> loss_bev(outputs, targets, indices, num_boxes)
         [] loss = "dim" -> loss_dims(outputs, targets, indices, num_boxes)
         [] loss = "angle" -> loss_angles(outputs, targets, indices, num_boxes)
         [] loss = "depth" -> loss_depth_multi_bin(outputs, targets, indices, num_boxes)
         [] loss = "head" -> loss_head(outputs, targets, indices, num_boxes)
         [] loss = "feet" -> loss_feet(outputs, targets, indices, num_boxes)

(***************************************************************************)
(* Collaborators of forward that live outside models/detr.py               *)
(***************************************************************************)
\* models/matcher.py: one assignment per image, a bijection between all
\* N_i targets and N_i of the queries, a function of the bundle and the
\* targets alone.  Target j of an image is given query bundle.best[j];
\* the pairs are returned in increasing order of the query index.
Matcher(bundle, targets) ==
  IF \/ {"pred_logits", "pred_boxes"} \ bundle.keys # {}
     \/ \E i \in 1..Len(targets) : {"labels", "boxes"} \ targets[i].keys # {}
     \/ Len(bundle.logits) # Len(targets)
     \/ \E i \in 1..Len(targets) : NumTargets(targets[i]) > NumQueries
  THEN [ok |-> FALSE, indices |-> <<>>]
  ELSE [ok |-> TRUE,
        indices |->
          [i \in 1..Len(targets) |->
             LET n == NumTargets(targets[i])
                 src == SortSeq([j \in 1..n |-> bundle.best[j]],
                                LAMBDA a, b : a < b)
             IN  [src |-> src,
                  tgt |-> [k \in 1..n |->
                             CHOOSE j \in 1..n : bundle.best[j] = src[k]]]]]

\* util.misc.get_world_size: 1 unless a process group is initialised
get_world_size(is_dist, world_size) == IF is_dist THEN world_size ELSE 1

(***************************************************************************)
(* SetCriterion.forward                                                    *)
(***************************************************************************)
\* {k: v for k, v in outputs.items() if k != 'aux_outputs'}
outputs_without_aux(outputs) ==
  [keys |-> outputs.keys \ {"aux_outputs"},
   logits |-> outputs.logits,
   best |-> outputs.best]

\* sum(len(t["labels"]) for t in targets)
LocalNumBoxes(targets) ==
  Sum([i \in 1..Len(targets) |-> Len(targets[i].labels)])

ClampNumBoxesUndivided(total, size) ==
  IF total < 1 THEN <<1, 1>> ELSE <<total, 1>>

\* torch.clamp(num_boxes / get_world_size(), min=1): total / size as a
\* rational, 1 when it is below 1
ClampNumBoxes(total, size) ==
  IF total < size THEN <<1, 1>> ELSE <<total, size>>

\* k + f'_{i}'
Suffixed(k, i) == k \o "_" \o ToString(i)

LogKwargAlways(layer, loss) == TRUE

\* kwargs of get_loss: log=False for 'labels' on an auxiliary layer
LogKwarg(layer, loss) == ~(layer >= 0 /\ loss = "labels")

\* "if loss == 'masks': continue" on an auxiliary layer
SkippedOnAux(layer, loss) == layer >= 0 /\ loss = "masks"

aux_bundle_first(outputs, i) == outputs.aux[1]

\* for i, aux_outputs in enumerate(outputs['aux_outputs'])
aux_bundle(outputs, i) == outputs.aux[i + 1]

\* losses.update(d) for every d of ds in turn, from an empty dict: a name
\* keeps the value of the last dict that has it
Updated(ds) ==
  [n \in UNION {DOMAIN ds[k] : k \in 1..Len(ds)} |->
     ds[CHOOSE k \in 1..Len(ds) :
          /\ n \in DOMAIN ds[k]
          /\ \A j \in (k + 1)..Len(ds) : n \notin DOMAIN ds[j]][n]]

\* {k + f'_{i}': v for k, v in l_dict.items()} on auxiliary layer i;
\* the final layer (layer = -1) keeps the names
Renamed(l_dict, layer) ==
  IF layer < 0 THEN l_dict
  ELSE [n \in {Suffixed(key, layer) : key \in DOMAIN l_dict} |->
          l_dict[CHOOSE key \in DOMAIN l_dict : Suffixed(key, layer) = n]]

\* the position of the first result that raised, Len(r) + 1 if none did
FirstRaise(r) ==
  IF \A j \in 1..Len(r) : r[j].ok THEN Len(r) + 1
  ELSE CHOOSE j \in 1..Len(r) : ~r[j].ok /\ \A i \in 1..(j - 1) : r[i].ok

\* The loop "for loss in self.losses" over one bundle, given the results r
\* of get_loss for the losses at the positions todo of cfg: the loop ends at
\* the first one that raised (stop).  Returns [ok, dicts, calls]: whether
\* none raised, the dicts merged into losses, and the get_loss calls made.
LoopResult(cfg, todo, r, stop, layer, indices, num_boxes) ==
  [ok |-> stop > Len(r),
   dicts |-> [j \in 1..(stop - 1) |-> Renamed(r[j].out, layer)],
   calls |-> [j \in 1..Min(stop, Len(r)) |->
                [loss |-> cfg[todo[j]], layer |-> layer, indices |-> indices,
                 num_boxes |-> num_boxes, ok |-> r[j].ok]]]

LoopOver(cfg, todo, r, layer, indices, num_boxes) ==
  LoopResult(cfg, todo, r, FirstRaise(r), layer, indices, num_boxes)

LayerLossesAt(cfg, todo, bundle, targets, indices, num_boxes, layer) ==
  LoopOver(cfg, todo,
           [j \in 1..Len(todo) |->
              get_loss(cfg[todo[j]], bundle, targets, indices, num_boxes,
                       LogKwarg(layer, cfg[todo[j]]))],
           layer, indices, num_boxes)

\* "for loss in self.losses: losses.update(self.get_loss(...))" over one
\* bundle.  layer = -1 is the final layer; layer = i >= 0 the auxiliary
\* layer i, where 'masks' is skipped, 'labels' gets log=False and every
\* returned name is suffixed.
LayerLosses(cfg, bundle, targets, indices, num_boxes, layer) ==
  LayerLossesAt(cfg,
                SelectSeq([k \in 1..Len(cfg) |-> k],
                          LAMBDA k : ~SkippedOnAux(layer, cfg[k])),
                bundle, targets, indices, num_boxes, layer)

\* forward up to the collective: the final-layer matching and the local
\* target count
HeadResult(bundle, targets, m) ==
  [ok |-> m.ok,
   indices |-> m.indices,
   local |-> IF m.ok THEN LocalNumBoxes(targets) ELSE 0,
   matched |-> <<[layer |-> -1, bundle |-> bundle, targets |-> targets,
                  ok |-> m.ok, indices |-> m.indices]>>]

HeadOn(bundle, targets) == HeadResult(bundle, targets, Matcher(bundle, targets))

ForwardHead(outputs, targets) == HeadOn(outputs_without_aux(outputs), targets)

\* len(outputs['aux_outputs']) if 'aux_outputs' in outputs, else no layer
AuxCount(outputs) ==
  IF "aux_outputs" \in outputs.keys THEN Len(outputs.aux) ELSE 0

\* one layer's part of forward: ran when its Matcher call returned
LayerStep(ran, run) ==
  [ok |-> ran /\ run.ok,
   dicts |-> IF ran THEN run.dicts ELSE <<>>,
   calls |-> IF ran THEN run.calls ELSE <<>>]

\* forward from "Compute all the requested losses" to the return, given
\* the Matcher results m of the auxiliary layers and the steps of all
\* layers (steps[1]: the final layer; steps[l + 2]: auxiliary layer l):
\* it ends at the first layer that raised (stop).
TailResult(outputs, targets, matched, m, steps, stop) ==
  [ok |-> stop > Len(steps),
   losses |-> Updated(Cat([l \in 1..Min(stop, Len(steps)) |-> steps[l].dicts])),
   calls |-> Cat([l \in 1..Min(stop, Len(steps)) |-> steps[l].calls]),
   matched |-> matched \o
               [l \in 1..(Min(stop, Len(steps)) - 1) |->
                  [layer |-> l - 1, bundle |-> aux_bundle(outputs, l - 1),
                   targets |-> targets, ok |-> m[l].ok,
                   indices |-> m[l].indices]]]

TailOver(outputs, targets, matched, m, steps) ==
  TailResult(outputs, targets, matched, m, steps, FirstRaise(steps))

TailWith(cfg, outputs, targets, indices, num_boxes, matched, m) ==
  TailOver(outputs, targets, matched, m,
           [l \in 1..(Len(m) + 1) |->
              LayerStep(l = 1 \/ m[l - 1].ok,
                        LayerLosses(cfg,
                                    IF l = 1 THEN outputs
                                    ELSE aux_bundle(outputs, l - 2),
                                    targets,
                                    IF l = 1 THEN indices ELSE m[l - 1].indices,
                                    num_boxes, l - 2))])

\* the final layer with the matching of ForwardHead, then "if 'aux_outputs'
\* in outputs": every auxiliary layer, each matched anew.
\* Returns [ok, losses, calls, matched].
ForwardTail(cfg, outputs, targets, indices, num_boxes, matched) ==
  TailWith(cfg, outputs, targets, indices, num_boxes, matched,
           [l \in 1..AuxCount(outputs) |->
              Matcher(aux_bundle(outputs, l - 1), targets)])

(***************************************************************************)
(* State                                                                   *)
(*                                                                         *)
(* One SetCriterion per worker process.  A call of forward is one step     *)
(* when no process group is initialised, and otherwise blocks in the       *)
(* all_reduce until every worker has entered it.                           *)
(***************************************************************************)
VARIABLES
  is_dist,     \* is_dist_avail_and_initialized()
  world,       \* the number of worker processes
  criterion,   \* per worker: [losses |-> self.losses]
  pc,          \* per worker: "idle", "all_reduce", "reduced", "returned", "raised"
  outputs,     \* per worker: the outputs argument of the call in progress
  targets,     \* per worker: the targets argument of the call in progress
  indices,     \* per worker: the final-layer matching of the call
  num_boxes,   \* per worker: the num_boxes tensor (local count, then the sum)
  matched,     \* per worker: the Matcher calls of the call, in order
  arrived,     \* the workers blocked in the all_reduce
  reduced,     \* per worker: every worker's tensor as its all_reduce summed them
  ret,         \* per worker: [ok, losses, calls], the outcome of the call
  args,        \* the arguments build was called with (<<>>: build was not used)
  target_sizes, \* per worker: the target_sizes argument of PostProcess.forward
  results      \* per worker: what PostProcess.forward returned

vars ==
  <<is_dist, world, criterion, pc, outputs, targets, indices, num_boxes,
    matched, arrived, reduced, ret, args, target_sizes, results>>

Workers == 1..world

NoRet == [ok |-> FALSE, losses |-> <<>>, calls |-> <<>>]

(***************************************************************************)
(* Inputs                                                                  *)
(***************************************************************************)
\* the loss list of build, and of build with args.masks
BuildLosses ==
  <<"labels", "boxes", "cardinality", "bev", "dim", "angle", "depth",
    "head", "feet">>

BuildLossesMasks == BuildLosses \o <<"masks">>

\* loss lists a SetCriterion is constructed with: those of build, shorter
\* ones, and one with a name that is not in the registry
LossLists ==
  {BuildLosses, BuildLossesMasks,
   <<"labels", "boxes", "cardinality">>,
   <<"labels", "cardinality", "masks">>,
   <<"labels", "giou", "cardinality">>}

\* the logits of a query whose arg-max is class c
LogitsFor(c) == [k \in 1..(num_classes + 1) |-> IF k = c + 1 THEN 1 ELSE 0]

\* the two query orders drawn for the Matcher's preference
QueryOrders ==
  {[q \in Queries |-> q], [q \in Queries |-> NumQueries + 1 - q]}

\* a bundle for b images whose first p queries predict class 0
Bundle(b, keys, order, p) ==
  [keys |-> keys,
   logits |-> [i \in 1..b |->
                 [q \in Queries |-> LogitsFor(IF q <= p THEN 0 ELSE num_classes)]],
   best |-> order]

\* a target dict of n objects
TargetDict(n, keys) ==
  [keys |-> keys,
   labels |-> [j \in 1..n |-> (j - 1) % num_classes],
   depth |-> [j \in 1..n |->
                (j % n_depth_bins) * depth_bin_res + (depth_bin_res \div 2)]]

BatchSizes == {1, 2}

TargetBatches(sizes, keysets) ==
  UNION {{[i \in 1..b |-> TargetDict(n[i], keys)] :
            n \in [1..b -> 0..MaxTargets], keys \in keysets} : b \in sizes}

\* the outputs of DETR.forward for b images: without 'aux_outputs', or with
\* a list of up to MaxAux bundles
OutputsSet(b, keysets, orders) ==
  LET finals == {Bundle(b, keys, o, 1) : keys \in keysets, o \in orders}
      auxs(k) == {[i \in 1..k |-> Bundle(b, PredKeys, f[i], 1)] :
                    f \in [1..k -> orders]}
  IN  {[keys |-> f.keys, logits |-> f.logits, best |-> f.best, aux |-> <<>>] :
         f \in finals}
      \cup
      UNION {{[keys |-> f.keys \cup {"aux_outputs"}, logits |-> f.logits,
               best |-> f.best, aux |-> a] : f \in finals, a \in auxs(k)} :
             k \in 0..MaxAux}

\* the calls drawn: every combination when there is one worker, a smaller
\* set per worker when several run together
CallTargets ==
  IF world = 1
  THEN TargetBatches(BatchSizes, {TargetKeys, TargetKeys \cup {"masks"}})
  ELSE TargetBatches({1}, {TargetKeys})

CallOutputs(b) ==
  IF world = 1
  THEN OutputsSet(b, {PredKeys, PredKeys \cup {"pred_masks"}}, QueryOrders)
  ELSE {o \in OutputsSet(b, {PredKeys}, {[q \in Queries |-> q]}) :
          Len(o.aux) <= 1}

(***************************************************************************)
(* Actions                                                                 *)
(***************************************************************************)
\* the call of worker w ends with the outcome r of ForwardTail: the mapping
\* is returned, or the exception of the first failure propagates
Completed(w, r) ==
  /\ matched' = [matched EXCEPT ![w] = r.matched]
  /\ ret' = [ret EXCEPT ![w] = [ok |-> r.ok,
                                losses |-> IF r.ok THEN r.losses ELSE <<>>,
                                calls |-> r.calls]]
  /\ pc' = [pc EXCEPT ![w] = IF r.ok THEN "returned" ELSE "raised"]

\* worker w is called with (o, t); h is the outcome of ForwardHead
Called(w, o, t, h) ==
  /\ outputs' = [outputs EXCEPT ![w] = o]
  /\ targets' = [targets EXCEPT ![w] = t]
  /\ indices' = [indices EXCEPT ![w] = h.indices]
  /\ num_boxes' = [num_boxes EXCEPT ![w] = h.local]

ForwardWith(w, o, t, h) ==
  /\ Called(w, o, t, h)
  /\ Completed(w, IF h.ok
                  THEN ForwardTail(criterion[w].losses, o, t, h.indices,
                                   ClampNumBoxes(h.local,
                                                 get_world_size(is_dist, world)),
                                   h.matched)
                  ELSE [ok |-> FALSE, losses |-> <<>>, calls |-> <<>>,
                        matched |-> h.matched])

\* forward, when no process group is initialised: the whole call
Forward(w) ==
  /\ ~is_dist
  /\ pc[w] = "idle"
  /\ \E t \in CallTargets : \E o \in CallOutputs(Len(t)) :
       ForwardWith(w, o, t, ForwardHead(o, t))
  /\ UNCHANGED <<args, target_sizes, results, is_dist, world, criterion, arrived, reduced>>

EnterWithSkip(w, o, t, h) ==
  /\ Called(w, o, t, h)
  /\ matched' = [matched EXCEPT ![w] = h.matched]
  /\ pc' = [pc EXCEPT ![w] = IF ~h.ok THEN "raised"
                             ELSE IF h.local = 0 THEN "reduced"
                             ELSE "all_reduce"]
  /\ arrived' = IF h.ok /\ h.local # 0 THEN arrived \cup {w} ELSE arrived

EnterWith(w, o, t, h) ==
  /\ Called(w, o, t, h)
  /\ matched' = [matched EXCEPT ![w] = h.matched]
  /\ pc' = [pc EXCEPT ![w] = IF h.ok THEN "all_reduce" ELSE "raised"]
  /\ arrived' = IF h.ok THEN arrived \cup {w} ELSE arrived

\* forward in a process group, up to torch.distributed.all_reduce(num_boxes)
ForwardEnter(w) ==
  /\ is_dist
  /\ pc[w] = "idle"
  /\ \E t \in CallTargets : \E o \in CallOutputs(Len(t)) :
       EnterWith(w, o, t, ForwardHead(o, t))
  /\ UNCHANGED <<args, target_sizes, results, is_dist, world, criterion, reduced, ret>>

\* the collective completes once every worker has entered it: each
\* worker's tensor becomes the sum of all of them
AllReduce ==
  /\ is_dist
  /\ arrived = Workers
  /\ num_boxes' = [w \in Workers |-> Sum([v \in 1..world |-> num_boxes[v]])]
  /\ pc' = [w \in Workers |-> "reduced"]
  /\ arrived' = {}
  /\ reduced' = [w \in Workers |-> num_boxes]
  /\ UNCHANGED <<args, target_sizes, results, is_dist, world, criterion, outputs, targets, indices,
                 matched, ret>>

\* forward in a process group, from the clamp to the return
ForwardFinish(w) ==
  /\ pc[w] = "reduced"
  /\ Completed(w, ForwardTail(criterion[w].losses, outputs[w], targets[w],
                              indices[w],
                              ClampNumBoxes(num_boxes[w],
                                            get_world_size(is_dist, world)),
                              matched[w]))
  /\ UNCHANGED <<args, target_sizes, results, is_dist, world, criterion, outputs, targets, indices,
                 num_boxes, arrived, reduced>>

\* the caller is done with the call: its arguments and locals are gone.
\* In a process group an exception ends the worker's step for good.
Reset(w) ==
  /\ pc[w] = "returned" \/ (pc[w] = "raised" /\ ~is_dist)
  /\ pc' = [pc EXCEPT ![w] = "idle"]
  /\ outputs' = [outputs EXCEPT ![w] = <<>>]
  /\ targets' = [targets EXCEPT ![w] = <<>>]
  /\ indices' = [indices EXCEPT ![w] = <<>>]
  /\ num_boxes' = [num_boxes EXCEPT ![w] = 0]
  /\ matched' = [matched EXCEPT ![w] = <<>>]
  /\ reduced' = [reduced EXCEPT ![w] = <<>>]
  /\ ret' = [ret EXCEPT ![w] = NoRet]
  /\ UNCHANGED <<args, target_sizes, results, is_dist, world, criterion, arrived>>

InitCalls ==
  /\ pc = [w \in Workers |-> "idle"]
  /\ outputs = [w \in Workers |-> <<>>]
  /\ targets = [w \in Workers |-> <<>>]
  /\ indices = [w \in Workers |-> <<>>]
  /\ num_boxes = [w \in Workers |-> 0]
  /\ matched = [w \in Workers |-> <<>>]
  /\ arrived = {}
  /\ reduced = [w \in Workers |-> <<>>]
  /\ ret = [w \in Workers |-> NoRet]
  /\ args = <<>>
  /\ target_sizes = [w \in Workers |-> <<>>]
  /\ results = [w \in Workers |-> <<>>]

\* one process, with or without an initialised process group of size 1
Init ==
  /\ is_dist \in BOOLEAN
  /\ world = 1
  /\ criterion \in [Workers -> [losses : LossLists]]
  /\ InitCalls

Next ==
  \/ \E w \in Workers : Forward(w)
  \/ \E w \in Workers : ForwardEnter(w)
  \/ AllReduce
  \/ \E w \in Workers : ForwardFinish(w)
  \/ \E w \in Workers : Reset(w)

Spec == Init /\ [][Next]_vars

(***************************************************************************)
(* Two worker processes, in one process group or each on its own           *)
(***************************************************************************)
InitDist ==
  /\ is_dist \in BOOLEAN
  /\ world = 2
  /\ criterion \in [Workers -> [losses : {<<"labels", "boxes", "cardinality">>,
                                          <<"cardinality", "bev">>}]]
  /\ InitCalls

SpecDist == InitDist /\ [][Next]_vars

(***************************************************************************)
(* Two workers whose training loops keep running: every worker that can    *)
(* take a step eventually does, and the collective completes once all      *)
(* workers are in it                                                       *)
(***************************************************************************)
InitBarrier ==
  /\ is_dist \in BOOLEAN
  /\ world = 2
  /\ criterion \in [Workers -> [losses : {<<"labels", "boxes", "cardinality">>,
                                          <<"cardinality", "bev">>,
                                          <<"labels", "giou", "cardinality">>}]]
  /\ InitCalls

\* the training loop of worker w in a process group keeps running: it
\* makes its call, and starts over after it.  ForwardFinish(w) is enabled
\* exactly while pc[w] = "reduced" and always leaves that position, so weak
\* fairness of it is: w is not at "reduced" for ever.
WorkerLoop(w) ==
  /\ WF_vars(ForwardEnter(w))
  /\ []<>(pc[w] # "reduced")
  /\ WF_vars(Reset(w))

Fairness ==
  /\ WF_vars(AllReduce)
  /\ WorkerLoop(1)
  /\ WorkerLoop(2)

SpecBarrier == InitBarrier /\ [][Next]_vars /\ Fairness

(***************************************************************************)
(* The loss functions called on their own: get_loss(loss, outputs,         *)
(* targets, indices, num_boxes) on arguments drawn at the start            *)
(***************************************************************************)
AllPredKeys == PredKeys \cup {"pred_masks"}

AllTargetKeys == TargetKeys \cup {"masks"}

\* the class logits drawn for one query: one class ahead, all equal, or the
\* last class level with no-object
LogitVectors ==
  {LogitsFor(c) : c \in 0..num_classes}
  \cup {[k \in 1..(num_classes + 1) |-> 0],
        [k \in 1..(num_classes + 1) |-> IF k >= num_classes THEN 1 ELSE 0]}

\* a bundle with every key and no auxiliary list
FullBundle(b, order) ==
  [keys |-> AllPredKeys, logits |-> Bundle(b, AllPredKeys, order, 1).logits,
   best |-> order, aux |-> <<>>]

\* target dicts with every key, ns[i] objects in image i
FullTargets(ns) == [i \in 1..Len(ns) |-> TargetDict(ns[i], AllTargetKeys)]

\* the object counts drawn per image
TargetCounts == UNION {[1..b -> 0..MaxTargets] : b \in BatchSizes}

\* the arguments of one get_loss call of worker 1: indices is the matching
\* of the bundle and the targets with all their keys
InitLoss(o, t, ns, extra) ==
  /\ is_dist = FALSE
  /\ world = 1
  /\ criterion = [w \in Workers |-> [losses |-> BuildLossesMasks]]
  /\ pc = [w \in Workers |-> "idle"]
  /\ outputs = [w \in Workers |-> o]
  /\ targets = [w \in Workers |-> t]
  /\ indices = [w \in Workers |->
                  Matcher(FullBundle(Len(ns), o.best), FullTargets(ns)).indices]
  /\ num_boxes = [w \in Workers |-> LocalNumBoxes(t) + extra]
  /\ matched = [w \in Workers |-> <<>>]
  /\ arrived = {}
  /\ reduced = [w \in Workers |-> <<>>]
  /\ ret = [w \in Workers |-> NoRet]
  /\ args = <<>>
  /\ target_sizes = [w \in Workers |-> <<>>]
  /\ results = [w \in Workers |-> <<>>]

GetLossWith(w, loss, r) ==
  /\ ret' = [ret EXCEPT ![w] =
               [ok |-> r.ok, losses |-> r.out,
                calls |-> <<[loss |-> loss, layer |-> -1,
                             indices |-> indices[w],
                             num_boxes |-> ClampNumBoxes(num_boxes[w], 1),
                             ok |-> r.ok]>>]]
  /\ pc' = [pc EXCEPT ![w] = IF r.ok THEN "returned" ELSE "raised"]
  /\ UNCHANGED <<args, target_sizes, results, is_dist, world, criterion, outputs, targets, indices,
                 num_boxes, matched, arrived, reduced>>

\* self.get_loss(loss, outputs, targets, indices, num_boxes, **kwargs)
GetLoss(w, loss, log) ==
  /\ pc[w] = "idle"
  /\ GetLossWith(w, loss,
                 get_loss(loss, outputs[w], targets[w], indices[w],
                          ClampNumBoxes(num_boxes[w], 1), log))

\* depth loss: the first object of the first image has any depth up to
\* MaxDepth; one image, or a second one with no or one object
InitDepth ==
  \E n \in 1..MaxTargets, d \in 0..MaxDepth, order \in QueryOrders,
     ns2 \in {<<>>, <<0>>, <<1>>} :
     InitLoss(FullBundle(1 + Len(ns2), order),
              [FullTargets(<<n>> \o ns2) EXCEPT ![1].depth[1] = d],
              <<n>> \o ns2, 0)

NextDepth == \E w \in Workers : GetLoss(w, "depth", TRUE)

SpecDepth == InitDepth /\ [][NextDepth]_vars

\* cardinality: the logits of the first image are drawn per query
InitCard ==
  \E ns \in {ns \in TargetCounts :
               Len(ns) = 1 \/ \A i \in 1..Len(ns) : ns[i] \in {0, MaxTargets}},
     lg \in [Queries -> LogitVectors], order \in QueryOrders,
     extra \in {0, 1} :
     InitLoss([FullBundle(Len(ns), order) EXCEPT !.logits[1] = lg],
              FullTargets(ns), ns, extra)

NextCard == \E w \in Workers : GetLoss(w, "cardinality", TRUE)

SpecCard == InitCard /\ [][NextCard]_vars

\* every loss: all keys present, or one prediction key absent from the
\* bundle, or one target key absent from one target dict
InitKeys ==
  \E ns \in TargetCounts, order \in QueryOrders :
     \/ InitLoss(FullBundle(Len(ns), order), FullTargets(ns), ns, 0)
     \/ \E k \in AllPredKeys :
          InitLoss([FullBundle(Len(ns), order) EXCEPT !.keys = @ \ {k}],
                   FullTargets(ns), ns, 0)
     \/ \E i \in 1..Len(ns), k \in AllTargetKeys :
          InitLoss(FullBundle(Len(ns), order),
                   [FullTargets(ns) EXCEPT ![i].keys = @ \ {k}], ns, 0)

NextKeys ==
  \E w \in Workers, loss \in LossNames, log \in BOOLEAN : GetLoss(w, loss, log)

SpecKeys == InitKeys /\ [][NextKeys]_vars

(***************************************************************************)
(* PostProcess                                                             *)
(*                                                                         *)
(* A box is <<cx, cy, w, h>>; a corner-form box is kept in halves of the   *)
(* box unit, so that cx - 0.5*w stays an integer.  A row of target_sizes   *)
(* is <<img_h, img_w>>.  A score is <<l, lg>>: the softmax probability     *)
(* exp(l) / sum(exp(lg)).                                                  *)
(***************************************************************************)
\* util/box_ops.py: (cx - 0.5w, cy - 0.5h, cx + 0.5w, cy + 0.5h), doubled
box_cxcywh_to_xyxy(b) ==
  <<2 * b[1] - b[3], 2 * b[2] - b[4], 2 * b[1] + b[3], 2 * b[2] + b[4]>>

scale_fct_hw(size) == <<size[1], size[2], size[1], size[2]>>

\* img_h, img_w = target_sizes.unbind(1);
\* scale_fct = torch.stack([img_w, img_h, img_w, img_h], dim=1)
scale_fct(size) == <<size[2], size[1], size[2], size[1]>>

\* prob[..., :-1].max(-1): the largest entry among the real classes
MaxReal(lg) == ArgMax(SubSeq(lg, 1, Len(lg) - 1))

PostProcess_forward(outs, sizes) ==
  IF {"pred_logits", "pred_boxes"} \ outs.keys # {} THEN Raise("KeyError")
  ELSE IF Len(outs.logits) # Len(sizes) THEN Raise("AssertionError")
  ELSE IF \E i \in 1..Len(sizes) : Len(sizes[i]) # 2 THEN Raise("AssertionError")
  ELSE Return([i \in 1..Len(outs.logits) |->
                 [scores |-> [q \in 1..Len(outs.logits[i]) |->
                                <<outs.logits[i][q][MaxReal(outs.logits[i][q]) + 1],
                                  outs.logits[i][q]>>],
                  labels |-> [q \in 1..Len(outs.logits[i]) |->
                                MaxReal(outs.logits[i][q])],
                  boxes |-> [q \in 1..Len(outs.boxes[i]) |->
                               [c \in 1..4 |->
                                  box_cxcywh_to_xyxy(outs.boxes[i][q])[c]
                                  * scale_fct(sizes[i])[c]]]]])

\* the boxes drawn for one query
Boxes ==
  {<<cx, cy, w, 1>> : cx \in 0..MaxCoord, cy \in 0..MaxCoord, w \in 0..MaxCoord}

\* the image sizes drawn
Sizes == (1..MaxSize) \X (1..MaxSize)

\* raw outputs of the model for b images: the first query of the first
\* image has any of the logits and boxes drawn
PostOutputs(b) ==
  {[keys |-> PredKeys,
    logits |-> [Bundle(b, PredKeys, <<>>, 1).logits EXCEPT ![1][1] = lg],
    boxes |-> [i \in 1..b |->
                 [q \in Queries |-> IF i = 1 /\ q = 1 THEN bx ELSE <<i, q, 1, 2>>]]] :
     lg \in LogitVectors, bx \in Boxes}

\* target_sizes of one or two rows; a second row is MaxSize + 1 high
PostSizes == {<<sz>> : sz \in Sizes} \cup {<<sz, <<MaxSize + 1, 1>>>> : sz \in Sizes}

InitPost ==
  /\ is_dist = FALSE
  /\ world = 1
  /\ criterion = [w \in Workers |-> [losses |-> BuildLosses]]
  /\ pc = [w \in Workers |-> "idle"]
  /\ \E b \in BatchSizes : outputs \in [Workers -> PostOutputs(b)]
  /\ target_sizes \in [Workers -> PostSizes]
  /\ targets = [w \in Workers |-> <<>>]
  /\ indices = [w \in Workers |-> <<>>]
  /\ num_boxes = [w \in Workers |-> 0]
  /\ matched = [w \in Workers |-> <<>>]
  /\ arrived = {}
  /\ reduced = [w \in Workers |-> <<>>]
  /\ ret = [w \in Workers |-> NoRet]
  /\ args = <<>>
  /\ results = [w \in Workers |-> <<>>]

PostWith(w, r) ==
  /\ results' = [results EXCEPT ![w] = r.out]
  /\ pc' = [pc EXCEPT ![w] = IF r.ok THEN "returned" ELSE "raised"]
  /\ UNCHANGED <<args, target_sizes, is_dist, world, criterion, outputs,
                 targets, indices, num_boxes, matched, arrived, reduced, ret>>

\* postprocessors['bbox'](outputs, target_sizes)
PostProcess(w) ==
  /\ pc[w] = "idle"
  /\ PostWith(w, PostProcess_forward(outputs[w], target_sizes[w]))

NextPost == \E w \in Workers : PostProcess(w)

SpecPost == InitPost /\ [][NextPost]_vars

(***************************************************************************)
(* build(args): the weight table and the criterion, and a training step    *)
(* of the model it builds                                                  *)
(***************************************************************************)
BaseWeightsDetr(a) ==
  "loss_ce" :> 1 @@ "loss_bbox" :> a.bbox_loss_coef
  @@ "loss_giou" :> a.giou_loss_coef

\* weight_dict before the auxiliary keys are added
BaseWeights(a) ==
  LET weight_dict ==
        "loss_ce" :> 1 @@ "loss_bbox" :> a.bbox_loss_coef
        @@ "loss_giou" :> a.giou_loss_coef
        @@ "loss_bev" :> a.bev_loss_coef
        @@ "loss_dim" :> a.dim_loss_coef
        @@ "loss_angle" :> a.angle_loss_coef
        @@ "loss_depth" :> a.depth_loss_coef
        @@ "loss_head_bev" :> a.head_loss_coef
        @@ "loss_feet_bev" :> a.feet_loss_coef
  IN  IF a.masks
      THEN "loss_mask" :> a.mask_loss_coef @@ "loss_dice" :> a.dice_loss_coef
           @@ weight_dict
      ELSE weight_dict

\* {k + f'_{i}': v for k, v in weight_dict.items()}
LayerWeights(weight_dict, i) ==
  [name \in {Suffixed(k, i) : k \in DOMAIN weight_dict} |->
     weight_dict[CHOOSE k \in DOMAIN weight_dict : Suffixed(k, i) = name]]

RECURSIVE AuxWeightsNested(_, _)
AuxWeightsNested(weight_dict, n) ==
  IF n <= 0 THEN <<>>
  ELSE LayerWeights(AuxWeightsNested(weight_dict, n - 1) @@ weight_dict, n - 1)
       @@ AuxWeightsNested(weight_dict, n - 1)

RECURSIVE AuxWeights(_, _)
\* aux_weight_dict after n rounds of
\* for i in range(args.dec_layers - 1): aux_weight_dict.update(...)
AuxWeights(weight_dict, n) ==
  IF n <= 0 THEN <<>>
  ELSE LayerWeights(weight_dict, n - 1) @@ AuxWeights(weight_dict, n - 1)

\* the weight_dict build hands to SetCriterion
BuildWeightDict(a) ==
  IF a.aux_loss
  THEN AuxWeights(BaseWeights(a), a.dec_layers - 1) @@ BaseWeights(a)
  ELSE BaseWeights(a)

\* criterion = SetCriterion(..., weight_dict=weight_dict, losses=losses, ...)
BuildCriterion(a) ==
  [losses |-> IF a.masks THEN BuildLossesMasks ELSE BuildLosses,
   weight_dict |-> BuildWeightDict(a)]

\* the loss coefficients drawn: all different, or some equal
Coefs ==
  {[bbox_loss_coef |-> 5, giou_loss_coef |-> 2, bev_loss_coef |-> 3,
    dim_loss_coef |-> 4, angle_loss_coef |-> 6, depth_loss_coef |-> 7,
    head_loss_coef |-> 8, feet_loss_coef |-> 9, mask_loss_coef |-> 10,
    dice_loss_coef |-> 11],
   [bbox_loss_coef |-> 5, giou_loss_coef |-> 2, bev_loss_coef |-> 1,
    dim_loss_coef |-> 1, angle_loss_coef |-> 1, depth_loss_coef |-> 1,
    head_loss_coef |-> 2, feet_loss_coef |-> 2, mask_loss_coef |-> 1,
    dice_loss_coef |-> 1]}

\* the arguments of build that reach the weight table and the criterion
ArgsSet ==
  {[masks |-> m, aux_loss |-> x, dec_layers |-> l,
    bbox_loss_coef |-> c.bbox_loss_coef, giou_loss_coef |-> c.giou_loss_coef,
    bev_loss_coef |-> c.bev_loss_coef, dim_loss_coef |-> c.dim_loss_coef,
    angle_loss_coef |-> c.angle_loss_coef,
    depth_loss_coef |-> c.depth_loss_coef,
    head_loss_coef |-> c.head_loss_coef, feet_loss_coef |-> c.feet_loss_coef,
    mask_loss_coef |-> c.mask_loss_coef, dice_loss_coef |-> c.dice_loss_coef] :
     m \in BOOLEAN, x \in BOOLEAN, l \in 1..(MaxAux + 1), c \in Coefs}

\* what the model built from a returns for b images: 'aux_outputs' with one
\* bundle per decoder layer but the last when aux_loss is set, 'pred_masks'
\* on the final bundle when masks is set
ModelOutputs(a, b) ==
  {o \in OutputsSet(b, {IF a.masks THEN AllPredKeys ELSE PredKeys}, QueryOrders) :
     /\ ("aux_outputs" \in o.keys) = a.aux_loss
     /\ Len(o.aux) = IF a.aux_loss THEN a.dec_layers - 1 ELSE 0}

InitBuild ==
  /\ is_dist = FALSE
  /\ world = 1
  /\ args \in ArgsSet
  /\ criterion = [w \in Workers |-> BuildCriterion(args)]
  /\ pc = [w \in Workers |-> "idle"]
  /\ outputs = [w \in Workers |-> <<>>]
  /\ targets = [w \in Workers |-> <<>>]
  /\ indices = [w \in Workers |-> <<>>]
  /\ num_boxes = [w \in Workers |-> 0]
  /\ matched = [w \in Workers |-> <<>>]
  /\ arrived = {}
  /\ reduced = [w \in Workers |-> <<>>]
  /\ ret = [w \in Workers |-> NoRet]
  /\ target_sizes = [w \in Workers |-> <<>>]
  /\ results = [w \in Workers |-> <<>>]

\* outputs = model(samples); loss_dict = criterion(outputs, targets)
TrainStep(w) ==
  /\ ~is_dist
  /\ pc[w] = "idle"
  /\ \E t \in TargetBatches(BatchSizes,
                            {IF args.masks THEN AllTargetKeys ELSE TargetKeys}) :
       \E o \in ModelOutputs(args, Len(t)) :
          ForwardWith(w, o, t, ForwardHead(o, t))
  /\ UNCHANGED <<args, target_sizes, results, is_dist, world, criterion,
                 arrived, reduced>>

NextBuild ==
  \/ \E w \in Workers : TrainStep(w)
  \/ \E w \in Workers : Reset(w)

SpecBuild == InitBuild /\ [][NextBuild]_vars

(***************************************************************************)
(* Properties of a Criterion call                                          *)
(***************************************************************************)
\* the term names each loss of the registry emits on the final layer
TermNames(loss) ==
  CASE loss = "labels" -> {"loss_ce", "class_error"}
    [] loss = "cardinality" -> {"cardinality_error"}
    [] loss = "boxes" -> {"loss_bbox", "loss_giou"}
    [] loss = "masks" -> {"loss_mask", "loss_dice"}
    [] loss = "bev" -> {"loss_bev"}
    [] loss = "dim" -> {"loss_dim"}
    [] loss = "angle" -> {"loss_angle"}
    [] loss = "depth" -> {"loss_depth"}
    [] loss = "head" -> {"loss_head_bev"}
    [] loss = "feet" -> {"loss_feet_bev"}
    [] OTHER -> {}

Configured(w) == SeqToSet(criterion[w].losses)

Ended(w) == pc[w] \in {"returned", "raised"}

TotalTargets(w) == Sum([i \in 1..Len(targets[w]) |-> Len(targets[w][i].labels)])

\* the names a call with k auxiliary bundles is to return
ExpectedNames(w, k) ==
  UNION {TermNames(l) : l \in Configured(w)}
  \cup UNION {{n \o "_" \o ToString(i) : n \in TermNames(l) \ {"class_error"}} :
                l \in Configured(w) \ {"masks"}, i \in 0..(k - 1)}

\* C2: the mapping returned by a call with K auxiliary bundles holds exactly
\* the final-layer names of the configured losses and, for every non-mask
\* loss and every i in 0..K-1, its names suffixed _i, class_error excepted:
\* no suffixed mask entry, no class_error_i, no other suffix.
C2_ReturnedNames ==
  \A w \in Workers :
     pc[w] = "returned" =>
       DOMAIN ret[w].losses = ExpectedNames(w, Len(outputs[w].aux))

C2_Witness ==
  \E w \in Workers :
     /\ pc[w] = "returned"
     /\ Len(outputs[w].aux) = 2
     /\ {"labels", "masks"} \subseteq Configured(w)
     /\ "loss_ce_1" \in DOMAIN ret[w].losses
     /\ "loss_mask" \in DOMAIN ret[w].losses

\* C3: a call with K auxiliary bundles that returns has invoked the Matcher
\* K+1 times, first on outputs without the aux_outputs key and then on each
\* auxiliary bundle in turn, always with the targets of this call; every
\* get_loss call of a layer, in a call that returns or raises, was given
\* the matching the Matcher returned for that layer's bundle in this call.
C3_MatcherPerLayer ==
  \A w \in Workers :
     /\ pc[w] = "returned" =>
          /\ Len(matched[w]) = Len(outputs[w].aux) + 1
          /\ matched[w][1].bundle =
               [keys |-> outputs[w].keys \ {"aux_outputs"},
                logits |-> outputs[w].logits, best |-> outputs[w].best]
          /\ \A l \in 1..Len(outputs[w].aux) :
                /\ matched[w][l + 1].bundle = outputs[w].aux[l]
                /\ matched[w][l + 1].layer = l - 1
     /\ Ended(w) =>
          /\ \A l \in 1..Len(matched[w]) :
                /\ matched[w][l].targets = targets[w]
                /\ matched[w][l].ok =>
                     matched[w][l].indices =
                       Matcher(matched[w][l].bundle, targets[w]).indices
          /\ \A k \in 1..Len(ret[w].calls) :
                LET c == ret[w].calls[k]
                IN  /\ c.layer + 2 \in 1..Len(matched[w])
                    /\ c.indices = matched[w][c.layer + 2].indices

C3_Witness ==
  \E w \in Workers :
     /\ pc[w] = "returned"
     /\ Len(matched[w]) = 3
     /\ matched[w][1].indices # matched[w][2].indices
     /\ matched[w][2].indices # matched[w][3].indices
     /\ \E k \in 1..Len(ret[w].calls) : ret[w].calls[k].layer = 1

\* the value max(1, S / W) as the rational <<n, d>>
IsClampedMean(nb, S, W) ==
  /\ nb[2] > 0
  /\ IF S < W THEN nb[1] = nb[2] ELSE nb[1] * W = S * nb[2]

\* C4: every get_loss call of a Criterion call, on the final and on every
\* auxiliary layer, is given the same denominator max(1, S / W): S the sum
\* of the local target counts of the W workers of the process group, or the
\* local count and W = 1 without a process group; every sum-based term is
\* divided by it.
C4_Denominator ==
  \A w \in Workers :
     /\ pc[w] \in {"all_reduce", "reduced"} =>
          reduced[w] = <<>> \/ reduced[w][w] = LocalNumBoxes(targets[w])
     /\ Ended(w) =>
          \A k \in 1..Len(ret[w].calls) :
             LET nb == ret[w].calls[k].num_boxes
             IN  /\ IF is_dist
                    THEN /\ Len(reduced[w]) = world
                         /\ reduced[w][w] = LocalNumBoxes(targets[w])
                         /\ IsClampedMean(nb, Sum(reduced[w]), world)
                    ELSE IsClampedMean(nb, LocalNumBoxes(targets[w]), 1)
                 /\ nb = ret[w].calls[1].num_boxes
     /\ pc[w] = "returned" =>
          \A n \in DOMAIN ret[w].losses :
             ret[w].losses[n].den \in {NoDen, ret[w].calls[1].num_boxes}

\* two workers report 1 and 2 targets: the denominator of both is 3/2
C4_Witness ==
  /\ is_dist
  /\ world = 2
  /\ \E w \in Workers :
       /\ pc[w] = "returned"
       /\ reduced[w] = <<1, 2>>
       /\ Len(outputs[w].aux) = 1
       /\ \E k \in 1..Len(ret[w].calls) :
            /\ ret[w].calls[k].layer = 0
            /\ ret[w].calls[k].num_boxes = <<3, 2>>
       /\ "loss_bbox" \in DOMAIN ret[w].losses
       /\ ret[w].losses["loss_bbox"].den = <<3, 2>>

\* C5: a call with the loss list of build on a batch with an image of zero
\* targets (all keys present, N_i <= num_queries) returns, with the
\* cardinality error computed and no pair of the empty image gathered.
C5_ZeroTargetImage ==
  \A w \in Workers :
     (/\ Ended(w)
      /\ criterion[w].losses = BuildLosses
      /\ \E i \in 1..Len(targets[w]) : Len(targets[w][i].labels) = 0)
     => /\ pc[w] = "returned"
        /\ "cardinality_error" \in DOMAIN ret[w].losses
        /\ \A i \in 1..Len(targets[w]) :
              Len(targets[w][i].labels) = 0 =>
                \A k \in 1..Len(ret[w].losses["loss_bev"].src) :
                   ret[w].losses["loss_bev"].src[k][1] # i

\* the first position of the loss list whose name is not in the registry
FirstUnknown(cfg) ==
  CHOOSE k \in 1..Len(cfg) :
     cfg[k] \notin LossNames /\ \A j \in 1..(k - 1) : cfg[j] \in LossNames

\* C8: a call whose loss list has a name outside the registry never returns
\* a mapping; when the Matcher and the losses before that name succeed, it
\* raises at the get_loss call for that name, the last call made, and the
\* terms computed before it are not returned.
C8_UnknownLoss ==
  \A w \in Workers :
     (Ended(w) /\ Configured(w) \ LossNames # {}) =>
        /\ pc[w] = "raised"
        /\ ret[w].losses = <<>>
        /\ (/\ matched[w][1].ok
            /\ \A k \in 1..Len(ret[w].calls) :
                  ret[w].calls[k].loss \in LossNames => ret[w].calls[k].ok)
           => /\ Len(ret[w].calls) = FirstUnknown(criterion[w].losses)
              /\ ret[w].calls[Len(ret[w].calls)].loss \notin LossNames
              /\ ~ret[w].calls[Len(ret[w].calls)].ok
              /\ \A k \in 1..Len(ret[w].calls) : ret[w].calls[k].layer = -1

C8_Witness ==
  \E w \in Workers :
     /\ pc[w] = "raised"
     /\ Len(ret[w].calls) = 2
     /\ ret[w].calls[1].loss = "labels" /\ ret[w].calls[1].ok
     /\ ret[w].calls[2].loss = "giou" /\ ~ret[w].calls[2].ok
     /\ Len(outputs[w].aux) = 1

MaskKeyAbsent(w) ==
  \/ "pred_masks" \notin outputs[w].keys
  \/ \E i \in 1..Len(targets[w]) : "masks" \notin targets[w][i].keys

\* C10 as stated: with the mask key absent from the outputs or the targets
\* the call completes, leaves the mask terms out and returns the terms of
\* the other configured losses (loss lists without 'depth', whose failure
\* is that of C5).
C10_AbsentKeyDisables ==
  \A w \in Workers :
     (/\ Ended(w)
      /\ MaskKeyAbsent(w)
      /\ Configured(w) \subseteq LossNames
      /\ "depth" \notin Configured(w))
     => /\ pc[w] = "returned"
        /\ DOMAIN ret[w].losses \cap {"loss_mask", "loss_dice"} = {}
        /\ \A l \in Configured(w) \ {"masks"} :
              TermNames(l) \subseteq DOMAIN ret[w].losses

\* C10, amended: the mask loss is disabled by the loss list alone.  Without
\* 'masks' in the list the mask keys are not read: the outcome of the call is
\* the same with and without them and no mask term is returned.  With
\* 'masks' in the list and a mask key absent, the call raises at the mask
\* loss and returns nothing.
C10_MasksByConfiguration ==
  \A w \in Workers :
     Ended(w) =>
        /\ ("masks" \notin Configured(w) /\ pc[w] = "returned") =>
              /\ DOMAIN ret[w].losses \cap {"loss_mask", "loss_dice"} = {}
              /\ \A l \in Configured(w) :
                    TermNames(l) \subseteq DOMAIN ret[w].losses
        /\ "masks" \notin Configured(w) =>
              LET o == [outputs[w] EXCEPT !.keys = @ \ {"pred_masks"}]
                  t == [i \in 1..Len(targets[w]) |->
                          [targets[w][i] EXCEPT !.keys = @ \ {"masks"}]]
                  r == ForwardTail(criterion[w].losses, o, t, indices[w],
                                   ret[w].calls[1].num_boxes, <<>>)
              IN  ret[w].calls # <<>> =>
                    /\ r.ok = (pc[w] = "returned")
                    /\ r.ok => r.losses = ret[w].losses
        /\ ("masks" \in Configured(w) /\ MaskKeyAbsent(w)) =>
              /\ pc[w] = "raised"
              /\ ret[w].losses = <<>>
              /\ (\A k \in 1..Len(ret[w].calls) :
                     ret[w].calls[k].loss # "masks" => ret[w].calls[k].ok)
                 => /\ ret[w].calls # <<>>
                    /\ ret[w].calls[Len(ret[w].calls)].loss = "masks"

C10_Witness ==
  \E w \in Workers :
     /\ pc[w] = "raised"
     /\ criterion[w].losses = <<"labels", "cardinality", "masks">>
     /\ "pred_masks" \notin outputs[w].keys
     /\ Len(ret[w].calls) = 3
     /\ ret[w].calls[2].ok
     /\ ~ret[w].calls[3].ok

(***************************************************************************)
(* Properties of what the losses compute                                   *)
(***************************************************************************)
RegressionTerms ==
  {"loss_bbox", "loss_giou", "loss_bev", "loss_head_bev", "loss_feet_bev",
   "loss_dim", "loss_angle", "loss_depth"}

\* the name of term n on layer l of the matched log (1: the final layer)
LayerName(n, l) == IF l = 1 THEN n ELSE n \o "_" \o ToString(l - 2)

\* the pairs of a matching, as triples <<image, query, target>>
MatchedTriples(ind) ==
  UNION {{<<i, ind[i].src[k], ind[i].tgt[k]>> : k \in 1..Len(ind[i].src)} :
           i \in 1..Len(ind)}

\* C1: in a Criterion call that returns, for every layer and its matching of
\* M pairs: target_classes of the labels loss holds the matched target's
\* label at the M matched (image, query) positions and num_classes at every
\* other query; every regression term (boxes, bev, head, feet, dim, angle,
\* depth) has gathered M predictions and M targets, pairwise the pairs of
\* the matching, and no other query.
C1_MatchedOnly ==
  \A w \in Workers :
     pc[w] = "returned" =>
       \A l \in 1..Len(matched[w]) :
          LET P == MatchedTriples(matched[w][l].indices)
              M == Cardinality(P)
          IN  /\ "labels" \in Configured(w) =>
                   LET cls == ret[w].losses[LayerName("loss_ce", l)].cls
                   IN  /\ \A i \in 1..Len(targets[w]), q \in Queries :
                             cls[i][q] =
                               IF \E p \in P : p[1] = i /\ p[2] = q
                               THEN targets[w][i].labels[
                                      (CHOOSE p \in P : p[1] = i /\ p[2] = q)[3]]
                               ELSE num_classes
                       /\ Cardinality({iq \in (1..Len(targets[w])) \X Queries :
                                         cls[iq[1]][iq[2]] # num_classes}) = M
              /\ \A n \in RegressionTerms \cap
                          UNION {TermNames(c) : c \in Configured(w)} :
                    /\ LayerName(n, l) \in DOMAIN ret[w].losses
                    /\ LET t == ret[w].losses[LayerName(n, l)]
                       IN  /\ Len(t.src) = M
                           /\ Len(t.tgt) = M
                           /\ {<<t.src[k][1], t.src[k][2], t.tgt[k][2]>> :
                                 k \in 1..Len(t.src)} = P
                           /\ \A k \in 1..Len(t.src) : t.tgt[k][1] = t.src[k][1]

\* two images with two objects each, matched to queries 2 and 3 in reverse
C1_Witness ==
  \E w \in Workers :
     /\ pc[w] = "returned"
     /\ criterion[w].losses = BuildLosses
     /\ Len(matched[w]) = 2
     /\ Len(targets[w]) = 2
     /\ matched[w][1].indices[1] = [src |-> <<2, 3>>, tgt |-> <<2, 1>>]
     /\ ret[w].losses["loss_ce"].cls[1] = <<num_classes, 1, 0>>
     /\ Len(ret[w].losses["loss_depth"].src) = 4
     /\ Len(ret[w].losses["loss_bbox_0"].src) = 4

\* C6: in the depth loss every matched target of depth d >= 0 gets the bin
\* id floor(d / r) and the residual d - bin_id*r - r/2, so that
\* bin_id*r + r/2 + residual = d and -r/2 <= residual < r/2, and the
\* one-hot row of the target has its 1 at position bin_id.
C6_DepthBins ==
  \A w \in Workers :
     (Ended(w) /\ ret[w].calls[1].loss = "depth") =>
        /\ pc[w] = "returned"
        /\ LET t == ret[w].losses["loss_depth"]
               r == depth_bin_res
           IN  /\ Len(t.bins) = Len(t.tgt)
               /\ Len(t.tgt) = LocalNumBoxes(targets[w])
               /\ \A k \in 1..Len(t.tgt) :
                     LET d == targets[w][t.tgt[k][1]].depth[t.tgt[k][2]]
                     IN  /\ t.bins[k] = d \div r
                         /\ 2 * t.res[k] = 2 * d - 2 * t.bins[k] * r - r
                         /\ 2 * t.bins[k] * r + r + 2 * t.res[k] = 2 * d
                         /\ -r <= 2 * t.res[k] /\ 2 * t.res[k] < r
                         /\ t.hot[k] = t.bins[k]

\* the queries of one image whose arg-max is not the last index: some
\* earlier logit is at least the last one
CountObjects(lg) ==
  Cardinality({q \in 1..Len(lg) :
                 \E c \in 1..(Len(lg[q]) - 1) : lg[q][c] >= lg[q][Len(lg[q])]})

\* C7: the cardinality error is the mean over the images of |P_i - N_i|,
\* P_i the number of queries of image i whose arg-max is not the last index
\* and N_i the number of targets of image i, whatever the matching and the
\* denominator passed; it is zero exactly when P_i = N_i for every image.
C7_CardinalityError ==
  \A w \in Workers :
     (Ended(w) /\ ret[w].calls[1].loss = "cardinality") =>
        /\ pc[w] = "returned"
        /\ LET e == ret[w].losses["cardinality_error"]
               P == [i \in 1..Len(targets[w]) |->
                       CountObjects(outputs[w].logits[i])]
               N == [i \in 1..Len(targets[w]) |-> Len(targets[w][i].labels)]
           IN  /\ e.card = <<Sum([i \in 1..Len(targets[w]) |-> Abs(P[i] - N[i])]),
                             Len(targets[w])>>
               /\ e.den = NoDen
               /\ (e.card[1] = 0) <=> (\A i \in 1..Len(targets[w]) : P[i] = N[i])

\* two logits tie with no-object, the matching is not the identity and the
\* denominator is not the target count
C7_Witness ==
  \E w \in Workers :
     /\ pc[w] = "returned"
     /\ ret[w].calls[1].loss = "cardinality"
     /\ Len(targets[w]) = 1
     /\ Len(targets[w][1].labels) = 2
     /\ outputs[w].logits[1][1] = [k \in 1..(num_classes + 1) |-> 0]
     /\ outputs[w].logits[1][2] = LogitsFor(num_classes)
     /\ outputs[w].logits[1][3] = LogitsFor(num_classes)
     /\ indices[w][1].tgt = <<2, 1>>
     /\ num_boxes[w] = 3
     /\ ret[w].losses["cardinality_error"].card = <<1, 1>>

\* the prediction keys and the target keys each loss reads
ReadsPred(loss) ==
  CASE loss = "labels" -> {"pred_logits"}
    [] loss = "cardinality" -> {"pred_logits"}
    [] loss = "boxes" -> {"pred_boxes"}
    [] loss = "masks" -> {"pred_masks"}
    [] loss = "bev" -> {"pred_bev"}
    [] loss = "head" -> {"pred_head_bev"}
    [] loss = "feet" -> {"pred_feet_bev"}
    [] loss = "dim" -> {"pred_dim"}
    [] loss = "angle" -> {"pred_angle"}
    [] loss = "depth" -> {"pred_depth_bin", "pred_depth_delta"}

ReadsTarget(loss) ==
  CASE loss = "labels" -> {"labels"}
    [] loss = "cardinality" -> {"labels"}
    [] loss = "boxes" -> {"boxes"}
    [] loss = "masks" -> {"masks"}
    [] loss = "bev" -> {"bev"}
    [] loss = "head" -> {"bev"}
    [] loss = "feet" -> {"bev"}
    [] loss = "dim" -> {"dim"}
    [] loss = "angle" -> {"heading_bin", "heading_res"}
    [] loss = "depth" -> {"depth"}

\* C9: a call of any of the ten loss functions raises and returns nothing
\* when a prediction key it reads is absent from the bundle or a target key
\* it reads is absent from one of the target dicts, also when the matching
\* has no pair.
C9_MissingKeyFails ==
  \A w \in Workers :
     Ended(w) =>
        LET l == ret[w].calls[1].loss
        IN  (\/ ReadsPred(l) \ outputs[w].keys # {}
             \/ \E i \in 1..Len(targets[w]) :
                   ReadsTarget(l) \ targets[w][i].keys # {})
            => /\ pc[w] = "raised"
               /\ ret[w].losses = <<>>

\* the angle loss on two images without objects, heading_res missing in
\* the second target dict
C9_Witness ==
  \E w \in Workers :
     /\ pc[w] = "raised"
     /\ ret[w].calls[1].loss = "angle"
     /\ Len(targets[w]) = 2
     /\ LocalNumBoxes(targets[w]) = 0
     /\ get_src_permutation_idx(indices[w]) = <<>>
     /\ "heading_res" \notin targets[w][2].keys
     /\ "heading_res" \in targets[w][1].keys
     /\ outputs[w].keys = AllPredKeys

(***************************************************************************)
(* Properties of PostProcess                                               *)
(***************************************************************************)
\* C11: PostProcess.forward returns one record per image and in it one
\* score, label and box per query; each label is a real class whose logit
\* no real class exceeds, never the no-object index; each box is twice
\* (cx - w/2, cy - h/2, cx + w/2, cy + h/2) in halves, multiplied
\* componentwise by the image's (width, height, width, height); the call
\* raises when the logits hold another number of images than target_sizes.
C11_PostProcess ==
  \A w \in Workers :
     Ended(w) =>
        IF Len(outputs[w].logits) # Len(target_sizes[w])
        THEN pc[w] = "raised" /\ results[w] = <<>>
        ELSE /\ pc[w] = "returned"
             /\ Len(results[w]) = Len(outputs[w].logits)
             /\ \A i \in 1..Len(results[w]) :
                   LET r == results[w][i]
                       W == target_sizes[w][i][2]
                       H == target_sizes[w][i][1]
                   IN  /\ Len(r.scores) = NumQueries
                       /\ Len(r.labels) = NumQueries
                       /\ Len(r.boxes) = NumQueries
                       /\ \A q \in Queries :
                             LET lg == outputs[w].logits[i][q]
                                 b == outputs[w].boxes[i][q]
                             IN  /\ r.labels[q] \in 0..(num_classes - 1)
                                 /\ \A c \in 1..num_classes :
                                       lg[c] <= lg[r.labels[q] + 1]
                                 /\ r.scores[q] = <<lg[r.labels[q] + 1], lg>>
                                 /\ r.boxes[q] =
                                      <<(2 * b[1] - b[3]) * W, (2 * b[2] - b[4]) * H,
                                        (2 * b[1] + b[3]) * W, (2 * b[2] + b[4]) * H>>

\* two images; the first query of the first is no-object by its logits and
\* still gets a real label; the image is wider than high
C11_Witness ==
  \E w \in Workers :
     /\ pc[w] = "returned"
     /\ Len(results[w]) = 2
     /\ outputs[w].logits[1][1] = LogitsFor(num_classes)
     /\ results[w][1].labels[1] = 0
     /\ outputs[w].boxes[1][1] = <<1, 2, 2, 1>>
     /\ target_sizes[w][1] = <<1, 2>>
     /\ results[w][1].boxes[1] = <<0, 3, 8, 5>>

(***************************************************************************)
(* Properties of build                                                     *)
(***************************************************************************)
\* the loss-term keys build gives a weight before the auxiliary copies
BaseKeys(a) ==
  {"loss_ce", "loss_bbox", "loss_giou", "loss_bev", "loss_dim", "loss_angle",
   "loss_depth", "loss_head_bev", "loss_feet_bev"}
  \cup (IF a.masks THEN {"loss_mask", "loss_dice"} ELSE {})

\* C12: the weight table of build holds every base key; with aux_loss and L
\* decoder layers it holds, for every base key k and every i in 0..L-2, the
\* key k_i with the weight of k, and no other key (none doubly suffixed);
\* without aux_loss it holds the base keys alone.
C12_WeightTable ==
  \A w \in Workers :
     LET wd == criterion[w].weight_dict
         L == args.dec_layers
     IN  /\ BaseKeys(args) \subseteq DOMAIN wd
         /\ args.aux_loss =>
              \A k \in BaseKeys(args), i \in 0..(L - 2) :
                 /\ Suffixed(k, i) \in DOMAIN wd
                 /\ wd[Suffixed(k, i)] = wd[k]
         /\ DOMAIN wd =
              BaseKeys(args) \cup
              (IF args.aux_loss
               THEN {Suffixed(k, i) : k \in BaseKeys(args), i \in 0..(L - 2)}
               ELSE {})
         /\ wd["loss_ce"] = 1
         /\ wd["loss_bev"] = args.bev_loss_coef

\* three decoder layers, masks, all coefficients different
C12_Witness ==
  \E w \in Workers :
     /\ args.aux_loss
     /\ args.masks
     /\ args.dec_layers = 3
     /\ args.dice_loss_coef = 11
     /\ criterion[w].weight_dict["loss_dice_1"] = 11
     /\ criterion[w].weight_dict["loss_depth_0"] = 7
     /\ Cardinality(DOMAIN criterion[w].weight_dict) = 33

\* the entries the caller passes through unweighted
Diagnostics(k) ==
  {"class_error", "cardinality_error"}
  \cup {Suffixed("cardinality_error", i) : i \in 0..(k - 1)}

\* C13: with the criterion and the weight table of build and a model that
\* emits one auxiliary bundle per decoder layer but the last, every key of
\* a returned mapping is a key of the weight table or a diagnostic
\* (class_error, cardinality_error, cardinality_error_i).
C13_EveryTermWeighted ==
  \A w \in Workers :
     pc[w] = "returned" =>
        /\ DOMAIN ret[w].losses \subseteq
             DOMAIN criterion[w].weight_dict \cup Diagnostics(Len(outputs[w].aux))
        /\ \A l \in Configured(w) \ {"labels", "cardinality"} :
              TermNames(l) \subseteq
                DOMAIN ret[w].losses \cap DOMAIN criterion[w].weight_dict

C13_Witness ==
  \E w \in Workers :
     /\ pc[w] = "returned"
     /\ args.aux_loss
     /\ args.dec_layers = 3
     /\ Len(outputs[w].aux) = 2
     /\ "loss_depth_1" \in DOMAIN ret[w].losses
     /\ "loss_head_bev_0" \in DOMAIN ret[w].losses
     /\ "cardinality_error_1" \in DOMAIN ret[w].losses
     /\ "cardinality_error_1" \notin DOMAIN criterion[w].weight_dict

(***************************************************************************)
(* Properties of the collective                                            *)
(***************************************************************************)
\* what holds of a worker at each position of a call in a process group
CollectiveState ==
  \A w \in Workers :
     /\ w \in arrived <=> pc[w] = "all_reduce"
     /\ pc[w] = "all_reduce" =>
          /\ is_dist
          /\ Len(matched[w]) = 1 /\ matched[w][1].ok
          /\ num_boxes[w] = LocalNumBoxes(targets[w])
          /\ ret[w].calls = <<>>
          /\ reduced[w] = <<>>
     /\ pc[w] = "reduced" =>
          /\ ret[w].calls = <<>>
          /\ Len(reduced[w]) = world
          /\ num_boxes[w] = Sum(reduced[w])
     /\ (is_dist /\ Ended(w) /\ ret[w].calls # <<>>) =>
          /\ Len(reduced[w]) = world
          /\ \A k \in 1..Len(ret[w].calls) :
                ret[w].calls[k].num_boxes = ClampNumBoxes(Sum(reduced[w]), world)
     /\ \A v \in Workers :
          (reduced[w] # <<>> /\ reduced[v] # <<>>) => reduced[w] = reduced[v]

\* a worker joins the collective only from the start of a call and leaves
\* it only when every worker has joined
CollectiveStep ==
  \A w \in Workers :
     /\ (w \in arrived' /\ w \notin arrived) =>
          pc[w] = "idle" /\ pc'[w] = "all_reduce"
     /\ (w \in arrived /\ w \notin arrived') =>
          arrived = Workers /\ pc'[w] = "reduced"
     /\ (is_dist /\ pc[w] = "idle" /\ pc'[w] # "idle") =>
          pc'[w] = "all_reduce" \/ (pc'[w] = "raised" /\ ~matched'[w][1].ok)
     /\ (ret[w].calls = <<>> /\ ret'[w].calls # <<>> /\ is_dist) =>
          pc[w] = "reduced"

\* C14: in a process group a worker enters the all_reduce once per call,
\* from the start of the call with its final-layer matching done and no loss
\* function run, whatever its target count, loss list and auxiliary outputs,
\* and runs its losses only after the collective; the workers of one
\* collective leave it with the same sum and use the same denominator; and a
\* worker in the collective leaves it, unless another worker's step has
\* ended in an exception and it makes no further call.
C14_Collective ==
  /\ []CollectiveState
  /\ [][CollectiveStep]_vars
  /\ (pc[1] = "all_reduce") ~> (pc[1] = "reduced" \/ pc[2] = "raised")
  /\ (pc[2] = "all_reduce") ~> (pc[2] = "reduced" \/ pc[1] = "raised")

\* worker 1 has no target and no auxiliary outputs, worker 2 has two
\* targets, an auxiliary bundle and another loss list; both are past the
\* collective with the sum 2 and worker 1 has returned
C14_Witness ==
  /\ is_dist
  /\ pc[1] = "returned"
  /\ pc[2] \in {"reduced", "returned"}
  /\ LocalNumBoxes(targets[1]) = 0
  /\ LocalNumBoxes(targets[2]) = 2
  /\ outputs[1].aux = <<>>
  /\ Len(outputs[2].aux) = 1
  /\ criterion[1].losses # criterion[2].losses
  /\ reduced[1] = <<0, 2>>
  /\ reduced[2] = <<0, 2>>
  /\ ret[1].calls[1].num_boxes = <<2, 2>>

====
